---- MODULE Spec2Model ----
(***************************************************************************)
(* Model of the chat gateway of shreyasgrampurohit/website:                *)
(* src/cloudflare-worker.js, handleRequest and its provider adapters       *)
(* callClaude, callOpenAI and callGemini.                                  *)
(*                                                                         *)
(* One invocation of handleRequest is a small process.  Its steps are the  *)
(* stretches of code between two awaits: the entry up to                   *)
(* `await request.json()`, the code from the parsed body up to the first   *)
(* outbound fetch (or a return), and the code from a vendor's answer up to *)
(* the next outbound fetch (or a return).                                  *)
(*                                                                         *)
(* The second part models the chat client, src/chatbot.js: sendMessage,    *)
(* handleUserMessage and callGemini with the session state                 *)
(* conversationHistory and isLoading.  A turn is split at its one await    *)
(* on the gateway.                                                         *)
(***************************************************************************)
EXTENDS Integers, Sequences, FiniteSets, TLC

\* ------------------------------------------------------------------------
\* Bounds of the model
\* ------------------------------------------------------------------------

\* longest `contents` array a request carries
MaxContents == 2

\* invocations of handleRequest that exist; Spec runs the first one
Invocations == {1, 2}

\* turns one chat session starts
MaxTurns == 6

\* turns a long chat session starts, and how many of them fail
LongTurns == 12

MaxFailedTurns == 1

\* ------------------------------------------------------------------------
\* Inputs: the deployment's secrets, inbound requests, vendor answers
\* ------------------------------------------------------------------------

Providers == {"claude", "openai", "gemini"}

\* env.X_API_KEY: not bound at all, bound to '', or bound to a key
CredStates == {"absent", "empty", "set"}

\* one element of body.contents:
\*   "null"     JSON null
\*   "number"   a JSON number (a non-object that has no role and no parts)
\*   "user"     {role: 'user',  parts: [{text}]}
\*   "model"    {role: 'model', parts: [{text}]}
\*   "badparts" {role: 'user',  parts: 'abc'}   (parts is not an array)
ElementKinds == {"null", "number", "user", "model", "badparts"}

ContentsArrays == UNION {[1..n -> ElementKinds] : n \in 0..MaxContents}

\* body.generationConfig: field absent, JSON null, or an object
GenKinds == {"absent", "null", "object"}

\* what request.json() finds in the body of a POST:
\*   json = "invalid"   the text is not JSON, request.json() rejects
\*   json = "null"      the JSON value null
\*   json = "number"    a JSON value that is not an object, e.g. 5
\*   json = "object"    an object; contents is "missing", "falsy" (null, 0,
\*                      ''), "string" (truthy, not an array) or an array
NoContents == <<>>

ObjectBodies ==
    [json : {"object"}, contentsKind : {"missing", "falsy", "string"},
     contents : {NoContents}, gen : GenKinds]
    \cup
    [json : {"object"}, contentsKind : {"array"},
     contents : ContentsArrays, gen : GenKinds]

NonObjectBodies ==
    [json : {"invalid", "null", "number"}, contentsKind : {"missing"},
     contents : {NoContents}, gen : {"absent"}]

Bodies == ObjectBodies \cup NonObjectBodies

NoBody == [json |-> "invalid", contentsKind |-> "missing",
           contents |-> NoContents, gen |-> "absent"]

Requests ==
    [method : {"POST"}, body : Bodies]
    \cup
    [method : {"OPTIONS", "GET", "PUT"}, body : {NoBody}]

NoRequest == [method |-> "none", body |-> NoBody]

\* a vendor's HTTP status codes
VendorStatuses == {200, 429, 503}

\* the body of a vendor's answer:
\*   "html"    text that is not JSON (a gateway's error page, a cut body)
\*   "reply"   JSON in the vendor's success shape, holding generated text
\*   "noreply" JSON in the vendor's success shape, holding no text
\*   "error"   JSON error payload
VendorBodies == {"html", "reply", "noreply", "error"}

\* the outcome of one outbound fetch: it rejects, or it yields a response
VendorResponses ==
    [kind : {"reject"}, status : {0}, body : {"html"}]
    \cup
    [kind : {"http"}, status : VendorStatuses, body : VendorBodies]

NoVendorResponse == [kind |-> "none", status |-> 0, body |-> "html"]

\* ------------------------------------------------------------------------
\* State
\* ------------------------------------------------------------------------

VARIABLES
    env,        \* provider -> credential state (the worker's secrets)
    pc,         \* invocation -> "idle", "json", "fetch", "done"
    request,    \* invocation -> the inbound request
    messages,   \* invocation -> normalizeMessages(body.contents)
    errors,     \* invocation -> the handler's `errors` array
    cur,        \* invocation -> index of the provider being awaited
    res,        \* invocation -> result of the latest adapter call
    invoked,    \* invocation -> adapters invoked so far, in order
    fetches,    \* invocation -> outbound fetches issued so far, in order
    answers,    \* invocation -> how those fetches settled, in order
    response,   \* invocation -> the Response returned to the client
    \* the chat client
    PROXY_URL,            \* CONFIG.PROXY_URL: "" or the gateway's URL
    knowledgeBase,        \* "null", "loaded", or "broken" (no chunks array)
    kbFetch,              \* loadKnowledgeBase: "pending" or "done"
    conversationHistory,  \* sequence of [role, text]
    isLoading,            \* the in-flight flag
    inFlight,             \* turns awaiting the gateway's answer
    turns,                \* turns started so far
    lastContents,         \* `contents` of the latest outbound request
    lastTurn,             \* how the latest call of sendMessage ended
    lastSearch,           \* the latest call of searchKnowledge examined
    lastTokens,           \* the latest call of tokenize examined
    \* the scholar-stats worker
    upstream,             \* the deployed variant: "serpapi" or "scholar"
    SERPAPI_KEY,          \* env.SERPAPI_KEY: "set" or "unset"
    cache,                \* caches.default: URL -> cached stats, or NoEntry
    scholar               \* invocation -> its position, locals and response

gatewayVars == <<env, pc, request, messages, errors, cur, res, invoked,
                 fetches, answers, response>>

chatVars == <<PROXY_URL, knowledgeBase, kbFetch, conversationHistory,
              isLoading, inFlight, turns, lastContents, lastTurn,
              lastSearch, lastTokens>>

scholarVars == <<upstream, SERPAPI_KEY, cache, scholar>>

vars == <<gatewayVars, chatVars, scholarVars>>

\* requests the scholar-stats worker handles, and the URLs they name
ScholarInvocations == {1, 2}

ScholarUrls == {"/stats", "/stats?v=2"}

NoEntry == [kind |-> "none"]

ScholarIdle ==
    [pc |-> "idle", method |-> "none", url |-> "none", matched |-> "none",
     upstreamCalls |-> 0, status |-> 0, body |-> NoEntry,
     putPending |-> FALSE, stored |-> FALSE]

\* the worker deployed with an empty cache and no request yet
ScholarStart ==
    /\ cache = [u \in ScholarUrls |-> NoEntry]
    /\ scholar = [r \in ScholarInvocations |-> ScholarIdle]

\* let knowledgeBase = null
NullKB == [kind |-> "null", chunks |-> <<>>]

\* no call of tokenize examined yet
NoTokens == [text |-> <<>>, tokens |-> <<>>, done |-> FALSE]

\* no call of searchKnowledge examined yet
NoSearch == [query |-> <<>>, kb |-> NullKB, scores |-> <<>>, ranked |-> <<>>,
             again |-> <<>>, done |-> FALSE]

\* ------------------------------------------------------------------------
\* Pure helpers
\* ------------------------------------------------------------------------

\* the order with the first two providers exchanged
ProviderOrder_Swapped == <<"openai", "claude", "gemini">>

\* Provider order: Claude -> OpenAI -> Gemini
ProviderOrder == <<"claude", "openai", "gemini">>

\* a test for undefined only, which takes the empty string for a key
Configured_NotAbsent(p) == env[p] # "absent"

\* `env?.X_API_KEY || null` is truthy
Configured(p) == env[p] = "set"

KeyNotSet(p) ==
    CASE p = "claude" -> "CLAUDE_API_KEY not set"
      [] p = "openai" -> "OPENAI_API_KEY not set"
      [] p = "gemini" -> "GEMINI_API_KEY not set"

\* Response.ok
RespOk(status) == status >= 200 /\ status <= 299

\* resp.json() resolves
Parseable(b) == b # "html"

\* data?.content?.[0]?.text || ''  and  data?.choices?.[0]?.message?.content || ''
ExtractText(b) == IF b = "reply" THEN "hello" ELSE ""

\* { candidates: [{ content: { parts: [{ text }] } }] }
Normalized(text) == [candidates |-> <<text>>]

\* the vendor's JSON as Gemini sends it, which is passed on untouched
GeminiData(b) ==
    CASE b = "reply"   -> [candidates |-> <<"hello">>]
      [] b = "noreply" -> [candidates |-> <<>>]
      [] OTHER         -> [error |-> b]

Failure(status, error) == [ok |-> FALSE, status |-> status, error |-> error]
Success(data) == [ok |-> TRUE, data |-> data]
NoRes == [ok |-> FALSE, status |-> 0, error |-> "none"]

\* a fault that leaves an adapter instead of being turned into a result;
\* the try/catch of handleRequest is what would catch it
Thrown(message) == [ok |-> FALSE, thrown |-> TRUE, error |-> message]
IsThrown(r) == "thrown" \in DOMAIN r

\* e.message of the fault caught by an adapter's try/catch
TransportMessage(vr) ==
    IF vr.kind = "reject" THEN "fetch failed" ELSE "Unexpected token"


\* ------------------------------------------------------------------------
\* normalizeMessages
\* ------------------------------------------------------------------------

\* contents.map(c => ...) faults: c.role on null, (c.parts || []).map on a
\* parts that is no array
normalizeThrows(contents) ==
    \E k \in 1..Len(contents) : contents[k] \in {"null", "badparts"}

\* role: c.role === 'model' ? 'assistant' : 'user'
normalizeMessages(contents) ==
    [k \in 1..Len(contents) |->
        [role |-> IF contents[k] = "model" THEN "assistant" ELSE "user",
         text |-> IF contents[k] \in {"user", "model"} THEN "text" ELSE ""]]

\* ------------------------------------------------------------------------
\* Provider adapters.  gen is body?.generationConfig, vr the outcome of the
\* adapter's outbound fetch.
\* ------------------------------------------------------------------------

\* the parameter default `gen = {}` replaces undefined only: with JSON null
\* the read of gen.maxOutputTokens / gen.temperature faults inside the try,
\* before fetch is reached.  callGemini never reads generationConfig.
BuildFaults(p, gen) == p \in {"claude", "openai"} /\ gen = "null"

\* a catch clause that reports a transport fault as a bad-gateway status
AfterFetch_Catch502(vr, data) ==
    IF vr.kind = "reject" \/ ~Parseable(vr.body)
    THEN Failure(502, TransportMessage(vr))
    ELSE IF ~RespOk(vr.status)
         THEN Failure(vr.status, vr.body)
         ELSE Success(data)

\* the part of an adapter after its fetch: resp.json(), the resp.ok test,
\* the extraction of the text, and the catch clause
AfterFetch(vr, data) ==
    IF vr.kind = "reject" \/ ~Parseable(vr.body)
    THEN Failure(500, TransportMessage(vr))
    ELSE IF ~RespOk(vr.status)
         THEN Failure(vr.status, vr.body)
         ELSE Success(data)

\* callClaude with the request built outside its try block, so that the
\* fault on a null generationConfig leaves the adapter
callClaude_BuildOutsideTry(gen, vr) ==
    IF BuildFaults("claude", gen)
    THEN Thrown("Cannot read properties of null")
    ELSE AfterFetch(vr, Normalized(ExtractText(vr.body)))

callClaude(gen, vr) ==
    IF BuildFaults("claude", gen)
    THEN Failure(500, "Cannot read properties of null")
    ELSE AfterFetch(vr, Normalized(ExtractText(vr.body)))

callOpenAI(gen, vr) ==
    IF BuildFaults("openai", gen)
    THEN Failure(500, "Cannot read properties of null")
    ELSE AfterFetch(vr, Normalized(ExtractText(vr.body)))

callGemini(vr) == AfterFetch(vr, GeminiData(vr.body))

CallProvider(p, gen, vr) ==
    CASE p = "claude" -> callClaude(gen, vr)
      [] p = "openai" -> callOpenAI(gen, vr)
      [] p = "gemini" -> callGemini(vr)

\* ------------------------------------------------------------------------
\* Responses
\* ------------------------------------------------------------------------

\* the names of the headers of CORS_HEADERS
CORS_HEADERS ==
    {"Access-Control-Allow-Origin", "Access-Control-Allow-Methods",
     "Access-Control-Allow-Headers"}

\* { ...CORS_HEADERS, 'Content-Type': 'application/json' }
JsonHeaders == CORS_HEADERS \cup {"Content-Type"}

NoResponse == [status |-> 0, headers |-> {}, body |-> [none |-> TRUE]]

\* new Response(null, { status: 204, headers: CORS_HEADERS })
Preflight ==
    [status |-> 204, headers |-> CORS_HEADERS, body |-> [none |-> TRUE]]

MethodNotAllowed ==
    [status |-> 405, headers |-> JsonHeaders,
     body |-> [error |-> "Method not allowed. Use POST."]]

InvalidRequest ==
    [status |-> 400, headers |-> JsonHeaders,
     body |-> [error |-> "Invalid request: contents array required"]]

WorkerError ==
    [status |-> 500, headers |-> JsonHeaders,
     body |-> [error |-> "Worker error"]]

\* an aggregate failure that reports the last diagnostic entry only
AllProvidersFailed_LastOnly(errs) ==
    [status |-> 502, headers |-> JsonHeaders,
     body |-> [error |-> "All providers failed",
               details |-> <<errs[Len(errs)]>>]]

\* an aggregate failure that passes on the status of the last vendor
AllProvidersFailed_VendorStatus(errs) ==
    [status |-> IF "status" \in DOMAIN errs[Len(errs)]
                THEN errs[Len(errs)].status ELSE 502,
     headers |-> JsonHeaders,
     body |-> [error |-> "All providers failed", details |-> errs]]

AllProvidersFailed(errs) ==
    [status |-> 502, headers |-> JsonHeaders,
     body |-> [error |-> "All providers failed", details |-> errs]]

respondJSON(data) == [status |-> 200, headers |-> JsonHeaders, body |-> data]

\* a handler without the preflight branch: OPTIONS is refused like GET
MethodResult_NoPreflight(method) ==
    IF method # "POST"
    THEN [pc |-> "done", response |-> MethodNotAllowed]
    ELSE [pc |-> "json", response |-> NoResponse]

\* the method tests at the head of handleRequest: where the handler goes
\* and what it has returned
MethodResult(method) ==
    IF method = "OPTIONS"
    THEN [pc |-> "done", response |-> Preflight]
    ELSE IF method # "POST"
         THEN [pc |-> "done", response |-> MethodNotAllowed]
         ELSE [pc |-> "json", response |-> NoResponse]

\* a configuration entry pushed in the shape of a failure entry
ConfigEntry_WithStatus(p) ==
    [provider |-> p, error |-> KeyNotSet(p), status |-> 500]

\* errors.push({ provider, error: 'X_API_KEY not set' })
ConfigEntry(p) == [provider |-> p, error |-> KeyNotSet(p)]

\* a failure entry pushed in the shape of a configuration entry
FailureEntry_NoStatus(p, r) == [provider |-> p, error |-> r.error]

\* errors.push({ provider, error: res.error, status: res.status })
FailureEntry(p, r) == [provider |-> p, error |-> r.error, status |-> r.status]

\* ------------------------------------------------------------------------
\* The provider chain of handleRequest, from provider number k on, run up to
\* its next await on an outbound fetch or up to its return.  st holds the
\* handler's locals: errors, res, and the two call logs.
\* ------------------------------------------------------------------------

\* a chain that starts the fetches of all remaining configured providers
\* together instead of awaiting them one by one
RECURSIVE Dispatch_AllAtOnce(_, _, _)
Dispatch_AllAtOnce(k, gen, st) ==
    IF k > Len(ProviderOrder)
    THEN [st EXCEPT !.pc = "done", !.cur = 0,
                    !.response = AllProvidersFailed(st.errors)]
    ELSE LET p == ProviderOrder[k] IN
         IF ~Configured(p) \/ BuildFaults(p, gen)
         THEN Dispatch_AllAtOnce(k + 1, gen,
                 [st EXCEPT !.errors = Append(@, ConfigEntry(p))])
         ELSE LET rest == SelectSeq(SubSeq(ProviderOrder, k,
                                           Len(ProviderOrder)), Configured)
              IN [st EXCEPT !.pc = "fetch", !.cur = k,
                            !.invoked = @ \o rest,
                            !.fetches = @ \o rest]

RECURSIVE Dispatch(_, _, _)
Dispatch(k, gen, st) ==
    IF k > Len(ProviderOrder)
    THEN [st EXCEPT !.pc = "done", !.cur = 0,
                    !.response = AllProvidersFailed(st.errors)]
    ELSE LET p == ProviderOrder[k] IN
         IF ~Configured(p)
         THEN Dispatch(k + 1, gen,
                       [st EXCEPT !.errors = Append(@, ConfigEntry(p))])
         ELSE IF BuildFaults(p, gen)
              THEN LET r == CallProvider(p, gen, NoVendorResponse) IN
                   IF IsThrown(r)
                   THEN [st EXCEPT !.pc = "done", !.cur = 0,
                                   !.invoked = Append(@, p),
                                   !.response = WorkerError]
                   ELSE Dispatch(k + 1, gen,
                            [st EXCEPT !.errors = Append(@, FailureEntry(p, r)),
                                       !.res = r,
                                       !.invoked = Append(@, p)])
              ELSE [st EXCEPT !.pc = "fetch", !.cur = k,
                              !.invoked = Append(@, p),
                              !.fetches = Append(@, p)]

\* the test `!body.contents` alone, without Array.isArray
ContentsInvalid_FalsyOnly(body) == body.contentsKind \in {"missing", "falsy"}

\* !body.contents || !Array.isArray(body.contents)
ContentsInvalid(body) == body.contentsKind # "array"

\* the handler's locals of invocation i, and their write-back
Locals(i) ==
    [pc |-> pc[i], cur |-> cur[i], errors |-> errors[i], res |-> res[i],
     invoked |-> invoked[i], fetches |-> fetches[i],
     response |-> response[i]]

\* `errors` as one array of the module, in place of the handler's
\* `const errors = []`
Store_SharedErrors(i, st) ==
    /\ pc' = [pc EXCEPT ![i] = st.pc]
    /\ cur' = [cur EXCEPT ![i] = st.cur]
    /\ errors' = [j \in Invocations |-> st.errors]
    /\ res' = [res EXCEPT ![i] = st.res]
    /\ invoked' = [invoked EXCEPT ![i] = st.invoked]
    /\ fetches' = [fetches EXCEPT ![i] = st.fetches]
    /\ response' = [response EXCEPT ![i] = st.response]

Store(i, st) ==
    /\ pc' = [pc EXCEPT ![i] = st.pc]
    /\ cur' = [cur EXCEPT ![i] = st.cur]
    /\ errors' = [errors EXCEPT ![i] = st.errors]
    /\ res' = [res EXCEPT ![i] = st.res]
    /\ invoked' = [invoked EXCEPT ![i] = st.invoked]
    /\ fetches' = [fetches EXCEPT ![i] = st.fetches]
    /\ response' = [response EXCEPT ![i] = st.response]

\* ------------------------------------------------------------------------
\* Initial state and the steps of handleRequest
\* ------------------------------------------------------------------------

Init ==
    /\ env \in [Providers -> CredStates]
    /\ pc = [i \in Invocations |-> "idle"]
    /\ request = [i \in Invocations |-> NoRequest]
    /\ messages = [i \in Invocations |-> <<>>]
    /\ errors = [i \in Invocations |-> <<>>]
    /\ cur = [i \in Invocations |-> 0]
    /\ res = [i \in Invocations |-> NoRes]
    /\ invoked = [i \in Invocations |-> <<>>]
    /\ fetches = [i \in Invocations |-> <<>>]
    /\ answers = [i \in Invocations |-> <<>>]
    /\ response = [i \in Invocations |-> NoResponse]
    /\ PROXY_URL = "url"
    /\ knowledgeBase = NullKB
    /\ lastSearch = NoSearch
    /\ lastTokens = NoTokens
    /\ upstream = "serpapi"
    /\ SERPAPI_KEY = "set"
    /\ ScholarStart
    /\ kbFetch = "pending"
    /\ conversationHistory = <<>>
    /\ isLoading = FALSE
    /\ inFlight = {}
    /\ turns = 0
    /\ lastContents = <<>>
    /\ lastTurn = [kind |-> "none"]

\* the runtime hands a request to handleRequest: the method tests, then
\* `await request.json()`
Receive(i, req) ==
    /\ pc[i] = "idle"
    /\ request' = [request EXCEPT ![i] = req]
    /\ Store(i, [Locals(i) EXCEPT
                   !.pc = MethodResult(req.method).pc,
                   !.response = MethodResult(req.method).response])
    /\ UNCHANGED <<env, messages, answers>>
    /\ UNCHANGED <<chatVars, scholarVars>>

\* request.json() settles: validation, normalizeMessages, and the provider
\* chain up to its first outbound fetch
BodyRead(i) ==
    /\ pc[i] = "json"
    /\ LET body == request[i].body IN
       IF body.json \in {"invalid", "null"}
       THEN \* request.json() rejects, or body.contents faults on null
            /\ Store(i, [Locals(i) EXCEPT !.pc = "done",
                                          !.response = WorkerError])
            /\ UNCHANGED messages
       ELSE IF ContentsInvalid(body)
       THEN \* status 400
            /\ Store(i, [Locals(i) EXCEPT !.pc = "done",
                                          !.response = InvalidRequest])
            /\ UNCHANGED messages
       ELSE IF normalizeThrows(body.contents)
       THEN /\ Store(i, [Locals(i) EXCEPT !.pc = "done",
                                          !.response = WorkerError])
            /\ UNCHANGED messages
       ELSE /\ messages' = [messages EXCEPT
                              ![i] = normalizeMessages(body.contents)]
            /\ Store(i, Dispatch(1, body.gen, Locals(i)))
    /\ UNCHANGED <<env, request, answers>>
    /\ UNCHANGED <<chatVars, scholarVars>>

\* the awaited fetch of the current provider settles with vr: the rest of
\* the adapter, then the chain up to the next outbound fetch or the return
ProviderResponds(i, vr) ==
    /\ pc[i] = "fetch"
    /\ LET p == ProviderOrder[cur[i]]
           gen == request[i].body.gen
           r == CallProvider(p, gen, vr)
       IN IF IsThrown(r)
          THEN Store(i, [Locals(i) EXCEPT !.pc = "done", !.cur = 0,
                                          !.response = WorkerError])
          ELSE IF r.ok
          THEN Store(i, [Locals(i) EXCEPT !.pc = "done", !.cur = 0,
                                          !.res = r,
                                          !.response = respondJSON(r.data)])
          ELSE Store(i, Dispatch(cur[i] + 1, gen,
                                 [Locals(i) EXCEPT
                                    !.errors = Append(@, FailureEntry(p, r)),
                                    !.res = r]))
    /\ answers' = [answers EXCEPT ![i] = Append(@, vr)]
    /\ UNCHANGED <<env, request, messages>>
    /\ UNCHANGED <<chatVars, scholarVars>>

Step(i) ==
    \/ \E req \in Requests : Receive(i, req)
    \/ BodyRead(i)
    \/ \E vr \in VendorResponses : ProviderResponds(i, vr)

\* one request at a time
Next == Step(1)

Spec == Init /\ [][Next]_vars

\* two requests handled at once: the runtime interleaves the invocations
\* at their awaits
ConcurrentRequests ==
    {req \in Requests :
        \/ req.method = "GET"
        \/ /\ req.method = "POST"
           /\ req.body.json = "object"
           /\ req.body.gen = "object"
           /\ \/ req.body.contentsKind = "missing"
              \/ req.body.contentsKind = "array" /\ req.body.contents = <<"user">>}

ConcurrentAnswers ==
    {vr \in VendorResponses :
        \/ vr.kind = "reject"
        \/ vr.status = 200 /\ vr.body = "reply"
        \/ vr.status # 200 /\ vr.body = "error"}

ConcurrentInit ==
    /\ Init
    /\ \A p \in Providers : env[p] \in {"set", "absent"}

ConcurrentStep(i) ==
    \/ \E req \in ConcurrentRequests : Receive(i, req)
    \/ BodyRead(i)
    \/ \E vr \in ConcurrentAnswers : ProviderResponds(i, vr)

ConcurrentNext == \E i \in Invocations : ConcurrentStep(i)

ConcurrentSpec == ConcurrentInit /\ [][ConcurrentNext]_vars

\* ------------------------------------------------------------------------
\* Retrieval (src/chatbot.js): texts are sequences of characters
\* ------------------------------------------------------------------------

MAX_CONTEXT_CHUNKS == 8

UpperCase ==
    <<"A", "B", "C", "D", "E", "F", "G", "H", "I", "J", "K", "L", "M",
      "N", "O", "P", "Q", "R", "S", "T", "U", "V", "W", "X", "Y", "Z">>

LowerCase ==
    <<"a", "b", "c", "d", "e", "f", "g", "h", "i", "j", "k", "l", "m",
      "n", "o", "p", "q", "r", "s", "t", "u", "v", "w", "x", "y", "z">>

Digits == {"0", "1", "2", "3", "4", "5", "6", "7", "8", "9"}

\* \w: [A-Za-z0-9_]
IsWord(c) ==
    \/ \E k \in 1..Len(UpperCase) : c = UpperCase[k] \/ c = LowerCase[k]
    \/ c \in Digits
    \/ c = "_"

\* \s, as far as the inputs go
IsSpace(c) == c \in {" ", "\n", "\t"}

\* String.prototype.toLowerCase
LowerChar(c) ==
    IF \E k \in 1..Len(UpperCase) : c = UpperCase[k]
    THEN LowerCase[CHOOSE k \in 1..Len(UpperCase) : c = UpperCase[k]]
    ELSE c

toLowerCase_Same(text) == text

toLowerCase(text) == [k \in 1..Len(text) |-> LowerChar(text[k])]

\* .replace(/[^\w\s]/g, ' ')
replacePunctuation(text) ==
    [k \in 1..Len(text) |->
        IF IsWord(text[k]) \/ IsSpace(text[k]) THEN text[k] ELSE " "]

\* .split(/\s+/): a run of whitespace separates two pieces, so a text that
\* starts or ends with whitespace has an empty piece there, and the empty
\* text is one empty piece
RECURSIVE splitFrom(_, _, _, _, _)
splitFrom(text, k, piece, pieces, inGap) ==
    IF k > Len(text) THEN Append(pieces, piece)
    ELSE IF IsSpace(text[k])
    THEN IF inGap THEN splitFrom(text, k + 1, piece, pieces, TRUE)
         ELSE splitFrom(text, k + 1, <<>>, Append(pieces, piece), TRUE)
    ELSE splitFrom(text, k + 1, Append(piece, text[k]), pieces, FALSE)

split(text) == splitFrom(text, 1, <<>>, <<>>, FALSE)

\* .filter(w => w.length > 2)
LongEnough_NonEmpty(w) == Len(w) > 0

LongEnough(w) == Len(w) > 2

\* a sequence given by a rule, as the list of its values
Listed(list) == SubSeq(list, 1, Len(list))

tokenize(text) ==
    SelectSeq(split(Listed(replacePunctuation(Listed(toLowerCase(text))))),
              LongEnough)

\* String.prototype.includes
includes(text, part) ==
    \E k \in 0..(Len(text) - Len(part)) :
        \A j \in 1..Len(part) : text[k + j] = part[j]

\* String.prototype.trim
RECURSIVE trimStart(_)
trimStart(text) ==
    IF text # <<>> /\ IsSpace(Head(text)) THEN trimStart(Tail(text)) ELSE text

RECURSIVE trimEnd(_)
trimEnd(text) ==
    IF text # <<>> /\ IsSpace(text[Len(text)])
    THEN trimEnd(SubSeq(text, 1, Len(text) - 1))
    ELSE text

trim(text) == trimEnd(trimStart(text))

\* Math.log of the whole numbers 1..20, in millionths
LnTable ==
    <<0, 693147, 1098612, 1386294, 1609438, 1791759, 1945910, 2079442,
      2197225, 2302585, 2397895, 2484907, 2564949, 2639057, 2708050,
      2772589, 2833213, 2890372, 2944439, 2995732>>

\* Math.log(N / docFreq)
idf_Inverted(N, docFreq) == LnTable[docFreq] - LnTable[N]

idf(N, docFreq) == LnTable[N] - LnTable[docFreq]

\* a score is the fraction num / den; den is the chunk's token count
ZeroScore == [num |-> 0, den |-> 1]

Positive(score) == score.num > 0

Higher(a, b) == a.num * b.den > b.num * a.den

\* a boost that adds to the score instead of multiplying it
boost_Additive(score) ==
    [num |-> score.num + LnTable[2] * score.den, den |-> score.den]

\* score *= 2
boost_None(score) == score

boost(score) == [num |-> 2 * score.num, den |-> score.den]

\* tf[t]: occurrences of t among the chunk's tokens
termFreq(chunkTokens, t) ==
    Cardinality({k \in 1..Len(chunkTokens) : chunkTokens[k] = t})

RECURSIVE sumOver(_, _, _, _, _)
sumOver(queryTokens, k, chunkTokens, df, N) ==
    IF k > Len(queryTokens) THEN 0
    ELSE LET qt == queryTokens[k]
             tfq == termFreq(chunkTokens, qt)
             dfq == df[k]
         IN (IF tfq > 0 /\ dfq > 0 THEN tfq * idf(N, dfq) ELSE 0)
              + sumOver(queryTokens, k + 1, chunkTokens, df, N)

\* the sum of (termFreq / chunkTokens.length) * idf over the query's tokens,
\* chunk by chunk
tfidfSum(query, chunks) ==
    LET queryTokens == tokenize(query)
        N == Len(chunks)
        tokens == Listed([i \in 1..N |-> tokenize(chunks[i].text)])
        \* df[qt], for the query's tokens
        df == Listed([k \in 1..Len(queryTokens) |->
                 Cardinality({i \in 1..N :
                     \E j \in 1..Len(tokens[i]) :
                         tokens[i][j] = queryTokens[k]})])
    IN Listed([i \in 1..N |->
          [num |-> sumOver(queryTokens, 1, tokens[i], df, N),
           den |-> IF Len(tokens[i]) = 0 THEN 1 ELSE Len(tokens[i])]])

computeTFIDF(query, chunks) ==
    IF Len(tokenize(query)) = 0 THEN [i \in 1..Len(chunks) |-> ZeroScore]
    ELSE LET plain == tfidfSum(query, chunks)
             phrase == Listed(toLowerCase(query))
         IN
         Listed([i \in 1..Len(chunks) |->
            IF includes(Listed(toLowerCase(chunks[i].text)), phrase)
            THEN boost(plain[i]) ELSE plain[i]])

\* .sort((a, b) => b.score - a.score): stable, highest score first
RECURSIVE insertByScore(_, _)
insertByScore(sorted, c) ==
    IF sorted = <<>> THEN <<c>>
    ELSE IF Higher(c.score, Head(sorted).score) THEN <<c>> \o sorted
    ELSE <<Head(sorted)>> \o insertByScore(Tail(sorted), c)

RECURSIVE sortFrom(_, _, _)
sortFrom(list, k, sorted) ==
    IF k > Len(list) THEN sorted
    ELSE sortFrom(list, k + 1, insertByScore(sorted, list[k]))

sort_Unsorted(list) == list

sort(list) == sortFrom(list, 1, <<>>)

\* .slice(0, n)
take_All(list, n) == list

take(list, n) == IF Len(list) <= n THEN list ELSE SubSeq(list, 1, n)

\* .filter(c => c.score > 0)
Kept_NonNegative(c) == c.score.num >= 0

Kept(c) == Positive(c.score)

\* the fetched JSON has a chunks array unless the file is not a knowledge
\* base
NoChunksKB == [kind |-> "nochunks", chunks |-> <<>>]

LoadedKB(chunks) == [kind |-> "object", chunks |-> chunks]

\* knowledgeBase.chunks.length of a JSON without a chunks array
searchThrows == knowledgeBase.kind = "nochunks"

\* searchKnowledge with the knowledge base it reads made explicit
searchKnowledgeIn(kb, query) ==
    IF kb.kind = "null" \/ Len(kb.chunks) = 0 THEN <<>>
    ELSE LET chunks == kb.chunks
             scores == computeTFIDF(query, chunks)
             scored == Listed([i \in 1..Len(chunks) |->
                          [text |-> chunks[i].text,
                           source |-> chunks[i].source,
                           score |-> scores[i]]])
         IN take(sort(SelectSeq(scored, Kept)), MAX_CONTEXT_CHUNKS)

searchKnowledge(query) == searchKnowledgeIn(knowledgeBase, query)

\* searchKnowledge maps, filters and sorts copies: the knowledge base stays
AfterSearch_SortedInPlace(kb, query) ==
    IF kb.kind # "object" \/ Len(kb.chunks) = 0 THEN kb
    ELSE LET scores == computeTFIDF(query, kb.chunks)
             scored == Listed([i \in 1..Len(kb.chunks) |->
                          [text |-> kb.chunks[i].text,
                           source |-> kb.chunks[i].source,
                           score |-> scores[i]]])
             sorted == sort(scored)
         IN LoadedKB([i \in 1..Len(sorted) |->
                        [text |-> sorted[i].text, source |-> sorted[i].source]])

AfterSearch(kb, query) == kb

\* ------------------------------------------------------------------------
\* Sample texts
\* ------------------------------------------------------------------------

TextPhD == <<"P", "h", "D">>

TextPhdInMath == <<"p", "h", "d", " ", "i", "n", " ", "m", "a", "t", "h">>

TextTheCat == <<"t", "h", "e", " ", "c", "a", "t">>

ChunkTexts == {TextPhD, TextPhdInMath, TextTheCat}

Sources == {"cv"}

Chunks == [text : ChunkTexts, source : Sources]

\* chunks of the knowledge bases examined: every list of up to MaxChunks
\* chunks, and that list up to Repeats times over
MaxChunks == 4

Repeats == 3

BoundedSeqs(S, n) == UNION {[1..m -> S] : m \in 0..n}

RECURSIVE Repeated(_, _)
Repeated(list, r) == IF r = 0 THEN <<>> ELSE list \o Repeated(list, r - 1)

KnowledgeBases ==
    {NullKB} \cup
    {LoadedKB(Repeated(base, r)) :
        base \in BoundedSeqs(Chunks, MaxChunks), r \in 1..Repeats}

QueryEmpty == <<>>

QueryPunctuation == <<"?", "!">>

QueryIn == <<"i", "n">>

QueryPhd == <<"p", "h", "d">>

QueryMathPhD == <<"M", "a", "t", "h", ",", " ", "P", "h", "D", "?">>

QueryCat == <<" ", "c", "a", "t", " ", "c", "a", "t">>

Queries == {QueryEmpty, QueryPunctuation, QueryIn, QueryPhd, QueryMathPhD,
            QueryCat}

\* ------------------------------------------------------------------------
\* The chat client (src/chatbot.js)
\* ------------------------------------------------------------------------

MAX_HISTORY == 10

\* one character that tells the texts of turn n from those of other turns
Marks == <<"1", "2", "3", "4", "5", "6", "7", "8", "9",
           "a", "b", "c", "d", "e", "f", "g">>

QuestionOf(n) == <<"P", "h", "D", "?", " ">> \o <<Marks[n]>>

AnswerOf(n) == <<"o", "k", " ">> \o <<Marks[n]>>

\* what the visitor may have typed before turn n: blanks only, or a
\* question with blanks around it
UserInputs(n) == {<<" ", " ">>, <<" ">> \o QuestionOf(n) \o <<"\n">>}

\* !msg: the empty string is falsy
Falsy(msg) == msg = <<>>

\* the knowledge base that knowledge_base.json holds
SiteKnowledgeBase ==
    LoadedKB(<<[text |-> TextPhdInMath, source |-> "cv"],
               [text |-> TextTheCat, source |-> "cv"]>>)

\* what the gateway's URL answers to the client's fetch
ProxyStatuses == {200, 429, 502}

ProxyBodies == {"reply", "emptytext", "nocandidates", "error", "html"}

ProxyOutcomes ==
    {[kind |-> "reject", status |-> 0, body |-> "none"]}
        \cup [kind : {"http"}, status : ProxyStatuses, body : ProxyBodies]

\* outcomes of fetch(KNOWLEDGE_BASE_URL)
KnowledgeBaseLoads == {"loaded", "broken", "failed"}

NoTurn == [kind |-> "none"]

\* isLoading as the two guards read it
Busy_Never == FALSE

Busy == isLoading

\* finally { isLoading = false }
LoadingAfterTurn_SuccessOnly(ok) == ~ok

LoadingAfterTurn(ok) == FALSE

\* the user's message not yet in the history when the request is built
PushUser_Skipped(history, message) == history

\* the user's message put at the head of the history (unshift)
PushUser_First(history, message) ==
    <<[role |-> "user", text |-> message]>> \o history

\* conversationHistory.push({ role: 'user', text: message })
PushUser(history, message) ==
    Append(history, [role |-> "user", text |-> message])

\* the try block's tail: the reply is stored as the assistant's message
OnReply_Dropped(history, reply) == history

OnReply(history, reply) ==
    Append(history, [role |-> "assistant", text |-> reply])

\* the catch block: the error is shown, the history is not touched
OnError_Stored(history, message) ==
    Append(history, [role |-> "assistant", text |-> message])

OnError_RolledBack(history, message) == SubSeq(history, 1, Len(history) - 1)

OnError(history, message) == history

\* conversationHistory.slice(-MAX_HISTORY)
slice_All(history, n) == history

slice_Oldest(history, n) ==
    IF Len(history) <= n THEN history ELSE SubSeq(history, 1, n)

slice(history, n) ==
    IF Len(history) <= n THEN history
    ELSE SubSeq(history, Len(history) - n + 1, Len(history))

\* callGemini up to its fetch: the `contents` of the outbound request
BuildContents(history, query, contextChunks) ==
    LET recentHistory == slice(history, MAX_HISTORY) IN
    [m \in 1..Len(recentHistory) |->
        [role |-> IF recentHistory[m].role = "user" THEN "user" ELSE "model",
         text |-> recentHistory[m].text]]
      \o <<[role |-> "user",
            text |-> [context |-> contextChunks, question |-> query]]>>

\* callGemini after its fetch: the reply, or the error thrown
GatewayReply(t, gr) ==
    IF gr.kind = "reject" THEN [ok |-> FALSE, error |-> "Failed to fetch"]
    ELSE IF gr.status # 200
    THEN IF gr.status = 429
         THEN [ok |-> FALSE, error |-> "Rate limit reached"]
         ELSE [ok |-> FALSE, error |-> "API error"]
    ELSE IF gr.body = "html" THEN [ok |-> FALSE, error |-> "Unexpected token"]
    ELSE IF gr.body = "reply"
    THEN [ok |-> TRUE, text |-> AnswerOf(t.id)]
    ELSE [ok |-> FALSE, error |-> "No response from Gemini"]

\* the gateway is idle and configured while the chat session is examined
GatewayIdle ==
    /\ env = [p \in Providers |-> "set"]
    /\ pc = [i \in Invocations |-> "idle"]
    /\ request = [i \in Invocations |-> NoRequest]
    /\ messages = [i \in Invocations |-> <<>>]
    /\ errors = [i \in Invocations |-> <<>>]
    /\ cur = [i \in Invocations |-> 0]
    /\ res = [i \in Invocations |-> NoRes]
    /\ invoked = [i \in Invocations |-> <<>>]
    /\ fetches = [i \in Invocations |-> <<>>]
    /\ answers = [i \in Invocations |-> <<>>]
    /\ response = [i \in Invocations |-> NoResponse]

\* the page as loaded: the state declarations of the module
ChatStart ==
    /\ knowledgeBase = NullKB
    /\ lastSearch = NoSearch
    /\ lastTokens = NoTokens
    /\ kbFetch = "pending"
    /\ conversationHistory = <<>>
    /\ isLoading = FALSE
    /\ inFlight = {}
    /\ turns = 0
    /\ lastContents = <<>>
    /\ lastTurn = NoTurn

ChatInit ==
    /\ GatewayIdle
    /\ ChatStart
    /\ PROXY_URL \in {"", "url"}
    /\ upstream = "serpapi"
    /\ SERPAPI_KEY = "set"
    /\ ScholarStart

\* loadKnowledgeBase: the fetched JSON becomes the knowledge base; a failed
\* fetch leaves it null
loadKnowledgeBase(outcome) ==
    /\ kbFetch = "pending"
    /\ kbFetch' = "done"
    /\ knowledgeBase' = CASE outcome = "loaded" -> SiteKnowledgeBase
                           [] outcome = "broken" -> NoChunksKB
                           [] OTHER -> knowledgeBase
    /\ UNCHANGED <<PROXY_URL, conversationHistory, isLoading, inFlight,
                   turns, lastContents, lastTurn, lastSearch, lastTokens>>
    /\ UNCHANGED <<gatewayVars, scholarVars>>

\* a call that returns at one of the guards
Ignored(message) ==
    /\ lastTurn' = [kind |-> "ignored", message |-> message,
                    before |-> conversationHistory]
    /\ UNCHANGED <<PROXY_URL, knowledgeBase, kbFetch, conversationHistory,
                   isLoading, inFlight, turns, lastContents, lastSearch, lastTokens>>

\* handleUserMessage up to the await on the gateway; searchKnowledge and the
\* head of callGemini may throw, and then catch and finally run at once
handleUserMessage(message) ==
    IF Busy \/ Falsy(trim(message)) THEN Ignored(message)
    ELSE
      LET before == conversationHistory
          pushed == PushUser(before, message)
          t == [id |-> turns + 1, message |-> message, before |-> before,
                contents |-> BuildContents(pushed, message,
                                           searchKnowledge(message))]
          thrown == IF searchThrows THEN "Cannot read properties of undefined"
                    ELSE IF PROXY_URL = "" THEN "Proxy URL not configured"
                    ELSE "none"
      IN
      /\ turns' = turns + 1
      /\ IF thrown # "none"
         THEN /\ conversationHistory' = OnError(pushed, thrown)
              /\ isLoading' = LoadingAfterTurn(FALSE)
              /\ lastTurn' = [kind |-> "failed", message |-> message,
                              before |-> before, error |-> thrown]
              /\ UNCHANGED <<inFlight, lastContents>>
         ELSE /\ conversationHistory' = pushed
              /\ isLoading' = TRUE
              /\ inFlight' = inFlight \cup {t}
              /\ lastContents' = t.contents
              /\ lastTurn' = [kind |-> "started", message |-> message,
                              before |-> before]
      /\ UNCHANGED <<PROXY_URL, knowledgeBase, kbFetch, lastSearch, lastTokens>>

\* the send button or the Enter key
sendMessage(input) ==
    /\ LET msg == trim(input) IN
       IF Falsy(msg) \/ Busy THEN Ignored(msg) ELSE handleUserMessage(msg)
    /\ UNCHANGED <<gatewayVars, scholarVars>>

\* the gateway's answer arrives: the rest of callGemini and of the turn
GatewaySettles(t, gr) ==
    /\ t \in inFlight
    /\ LET r == GatewayReply(t, gr) IN
       /\ conversationHistory' =
              IF r.ok THEN OnReply(conversationHistory, r.text)
              ELSE OnError(conversationHistory, r.error)
       /\ isLoading' = LoadingAfterTurn(r.ok)
       /\ lastTurn' = IF r.ok
                      THEN [kind |-> "accepted", message |-> t.message,
                            before |-> t.before, reply |-> r.text]
                      ELSE [kind |-> "failed", message |-> t.message,
                            before |-> t.before, error |-> r.error]
    /\ inFlight' = inFlight \ {t}
    /\ UNCHANGED <<PROXY_URL, knowledgeBase, kbFetch, turns, lastContents,
                   lastSearch, lastTokens>>
    /\ UNCHANGED <<gatewayVars, scholarVars>>

Settle == \E t \in inFlight : \E gr \in ProxyOutcomes : GatewaySettles(t, gr)

ChatNext ==
    \/ \E outcome \in KnowledgeBaseLoads : loadKnowledgeBase(outcome)
    \/ turns < MaxTurns /\ \E input \in UserInputs(turns + 1) : sendMessage(input)
    \/ Settle

ChatSpec == ChatInit /\ [][ChatNext]_vars

\* the fetch on the gateway resolves or rejects in the end
ChatFairSpec == ChatSpec /\ WF_vars(Settle)

\* the user messages of a history that no assistant message follows
Unanswered(history) ==
    Cardinality({k \in 1..Len(history) :
        /\ history[k].role = "user"
        /\ k = Len(history) \/ history[k + 1].role = "user"})

\* a long session: the gateway's URL is configured and the knowledge base
\* has been fetched, or could not be, before the first question
LongChatInit ==
    /\ ChatInit
    /\ PROXY_URL = "url"

LongChatStart ==
    /\ turns = 0
    /\ \E outcome \in {"loaded", "failed"} : loadKnowledgeBase(outcome)

LongChatNext ==
    \/ LongChatStart
    \/ /\ kbFetch = "done"
       /\ turns < LongTurns
       /\ \E input \in UserInputs(turns + 1) : sendMessage(input)
    \/ /\ kbFetch = "done"
       /\ Settle
       /\ Unanswered(conversationHistory') <= MaxFailedTurns

LongChatSpec == LongChatInit /\ [][LongChatNext]_vars

\* searchKnowledge applied to a query and a knowledge base
SearchInit ==
    /\ ChatInit
    /\ PROXY_URL = "url"

\* the page has fetched some knowledge base
SearchLoad(kb) ==
    /\ kbFetch = "pending"
    /\ kbFetch' = "done"
    /\ knowledgeBase' = kb
    /\ UNCHANGED <<PROXY_URL, conversationHistory, isLoading, inFlight,
                   turns, lastContents, lastTurn, lastSearch, lastTokens>>
    /\ UNCHANGED <<gatewayVars, scholarVars>>

Search(query) ==
    /\ kbFetch = "done"
    /\ ~lastSearch.done
    /\ knowledgeBase' = AfterSearch(knowledgeBase, query)
    /\ UNCHANGED lastTokens
    /\ lastSearch' = [query |-> query, kb |-> knowledgeBase,
                      scores |-> computeTFIDF(query, knowledgeBase.chunks),
                      ranked |-> searchKnowledge(query),
                      again |-> searchKnowledgeIn(knowledgeBase', query),
                      done |-> TRUE]
    /\ UNCHANGED <<PROXY_URL, kbFetch, conversationHistory, isLoading,
                   inFlight, turns, lastContents, lastTurn>>
    /\ UNCHANGED <<gatewayVars, scholarVars>>

SearchNext ==
    \/ \E kb \in KnowledgeBases : SearchLoad(kb)
    \/ \E query \in Queries : Search(query)

SearchSpec == SearchInit /\ [][SearchNext]_vars

\* tokenize applied to a text
MaxTextLen == 4

Alphabet == {"a", "B", "_", "!", " "}

TextHelloWorld ==
    <<"H", "e", "l", "l", "o", ",", " ", "W", "o", "r", "l", "d", "!", "!">>

TextAAnIs == <<"a", " ", "a", "n", " ", "i", "s">>

Texts ==
    BoundedSeqs(Alphabet, MaxTextLen) \cup Queries \cup ChunkTexts
        \cup {TextHelloWorld, TextAAnIs}

Tokenize(text) ==
    /\ ~lastTokens.done
    /\ lastTokens' = [text |-> text, tokens |-> tokenize(text), done |-> TRUE]
    /\ UNCHANGED <<PROXY_URL, knowledgeBase, kbFetch, conversationHistory,
                   isLoading, inFlight, turns, lastContents, lastTurn,
                   lastSearch>>
    /\ UNCHANGED <<gatewayVars, scholarVars>>

TokenizeNext == \E text \in Texts : Tokenize(text)

TokenizeSpec == SearchInit /\ [][TokenizeNext]_vars

\* ------------------------------------------------------------------------
\* The scholar-stats worker (src/scholar-worker.js and the SerpApi variant
\* in src/cloudflare-worker.js)
\* ------------------------------------------------------------------------

ScholarMethods == {"GET", "OPTIONS", "POST"}

\* how the upstream answers: stats (they change over time), a 200 answer
\* that holds no figures (JSON without cited_by, a page without the table),
\* a non-2xx status, a body that cannot be read, or no answer at all
UpstreamOutcomes ==
    {"stats1", "stats2", "nostats", "status503", "unreadable", "rejected"}

Stats(name) == [kind |-> "stats", stats |-> name]

ErrorBody(message) == [kind |-> "error", error |-> message]

\* the SerpApi variant answers 500 without a key; the scraping variant has
\* no key
KeyMissing == upstream = "serpapi" /\ SERPAPI_KEY = "unset"

\* `if (!response)` after cache.match
Cached_Never(entry) == FALSE

Cached(entry) == entry # NoEntry

\* the upstream's answer as the worker reads it: stats, or a throw; the
\* scraping variant reads any page, and parseScholarStats leaves zeroes,
\* as `|| 0` does in the SerpApi variant
UpstreamStats(outcome) ==
    CASE outcome \in {"stats1", "stats2"} -> Stats(outcome)
      [] outcome = "nostats" -> Stats("zeroes")
      [] outcome = "unreadable" /\ upstream = "scholar" -> Stats("zeroes")
      [] OTHER -> NoEntry

\* what cache.put stores for the request
PutEntry(entry) == entry

\* a cache.put in a finally clause, reached on a failure as well
PutScheduled_Always(stats) == TRUE

\* ctx.waitUntil(cache.put(..)) is reached unless the try block has thrown
PutScheduled(stats) == stats # NoEntry

\* fetch(request): the method checks and the key check
ScholarReceive(r, method, url) ==
    /\ scholar[r].pc = "idle"
    /\ scholar' = [scholar EXCEPT ![r] =
          IF method = "OPTIONS"
          THEN [@ EXCEPT !.pc = "done", !.method = method, !.url = url,
                         !.status = 204]
          ELSE IF method # "GET"
          THEN [@ EXCEPT !.pc = "done", !.method = method, !.url = url,
                         !.status = 405,
                         !.body = ErrorBody("Method not allowed")]
          ELSE IF KeyMissing
          THEN [@ EXCEPT !.pc = "done", !.method = method, !.url = url,
                         !.status = 500,
                         !.body = ErrorBody("Configuration error")]
          ELSE [@ EXCEPT !.pc = "match", !.method = method, !.url = url]]
    /\ UNCHANGED <<upstream, SERPAPI_KEY, cache>>
    /\ UNCHANGED <<gatewayVars, chatVars>>

\* cache.match(cacheKey) resolves: a hit is returned as it is, a miss
\* issues the fetch to the upstream
CacheMatch(r) ==
    /\ scholar[r].pc = "match"
    /\ LET entry == cache[scholar[r].url] IN
       scholar' = [scholar EXCEPT ![r] =
          IF Cached(entry)
          THEN [@ EXCEPT !.pc = "done", !.matched = "hit", !.status = 200,
                         !.body = entry]
          ELSE [@ EXCEPT !.pc = "upstream", !.matched = "miss",
                         !.upstreamCalls = @ + 1]]
    /\ UNCHANGED <<upstream, SERPAPI_KEY, cache>>
    /\ UNCHANGED <<gatewayVars, chatVars>>

\* the upstream answers: a fresh 200 response is built and its cache.put
\* handed to ctx.waitUntil; anything else is caught and answered with 500
UpstreamAnswers(r, outcome) ==
    /\ scholar[r].pc = "upstream"
    /\ LET stats == UpstreamStats(outcome) IN
       scholar' = [scholar EXCEPT ![r] =
          IF stats # NoEntry
          THEN [@ EXCEPT !.pc = "done", !.status = 200, !.body = stats,
                         !.putPending = PutScheduled(stats)]
          ELSE [@ EXCEPT !.pc = "done", !.status = 500,
                         !.body = ErrorBody("Failed to fetch Scholar stats"),
                         !.putPending = PutScheduled(stats)]]
    /\ UNCHANGED <<upstream, SERPAPI_KEY, cache>>
    /\ UNCHANGED <<gatewayVars, chatVars>>

\* cache.put(cacheKey, response.clone()) completes
CachePut(r) ==
    /\ scholar[r].putPending
    /\ cache' = [cache EXCEPT ![scholar[r].url] = PutEntry(scholar[r].body)]
    /\ scholar' = [scholar EXCEPT ![r].putPending = FALSE, ![r].stored = TRUE]
    /\ UNCHANGED <<upstream, SERPAPI_KEY>>
    /\ UNCHANGED <<gatewayVars, chatVars>>

\* max-age runs out, or the edge evicts the entry
CacheExpires(url) ==
    /\ cache[url] # NoEntry
    /\ cache' = [cache EXCEPT ![url] = NoEntry]
    /\ UNCHANGED <<upstream, SERPAPI_KEY, scholar>>
    /\ UNCHANGED <<gatewayVars, chatVars>>

ScholarInit ==
    /\ GatewayIdle
    /\ ChatStart
    /\ PROXY_URL = "url"
    /\ upstream \in {"serpapi", "scholar"}
    /\ SERPAPI_KEY \in {"set", "unset"}
    /\ ScholarStart

ScholarNext ==
    \/ \E r \in ScholarInvocations, method \in ScholarMethods,
          url \in ScholarUrls : ScholarReceive(r, method, url)
    \/ \E r \in ScholarInvocations : CacheMatch(r)
    \/ \E r \in ScholarInvocations, outcome \in UpstreamOutcomes :
          UpstreamAnswers(r, outcome)
    \/ \E r \in ScholarInvocations : CachePut(r)
    \/ \E url \in ScholarUrls : CacheExpires(url)

ScholarSpec == ScholarInit /\ [][ScholarNext]_vars

\* every await of the worker resolves, and so does the cache.put that
\* ctx.waitUntil keeps the worker alive for
ScholarFairSpec ==
    /\ ScholarSpec
    /\ \A r \in ScholarInvocations :
          /\ WF_vars(CacheMatch(r))
          /\ WF_vars(\E outcome \in UpstreamOutcomes :
                        UpstreamAnswers(r, outcome))
          /\ WF_vars(CachePut(r))

\* ------------------------------------------------------------------------
\* Vocabulary of the properties
\* ------------------------------------------------------------------------

\* the order the properties speak of, written out
Rank(p) == CASE p = "claude" -> 1 [] p = "openai" -> 2 [] p = "gemini" -> 3

Range(seq) == {seq[k] : k \in 1..Len(seq)}

\* strictly ascending in the order claude, openai, gemini
Ascending(seq) ==
    \A a, b \in 1..Len(seq) : a < b => Rank(seq[a]) < Rank(seq[b])

LastOf(seq) == seq[Len(seq)]

\* the credential of p is absent or empty
Unconfigured(p) == env[p] \in {"absent", "empty"}

\* the configured providers that come after p in the order
LaterConfigured(p) == {q \in Providers : env[q] = "set" /\ Rank(q) > Rank(p)}

\* p failed and the handler went on: the next configured provider was
\* invoked, or none is left and the answer is the aggregate failure
FollowedUp(i, p) ==
    IF LaterConfigured(p) = {}
    THEN response[i].status = 502
    ELSE \E q \in LaterConfigured(p) :
            /\ \A q2 \in LaterConfigured(p) : Rank(q) <= Rank(q2)
            /\ q \in Range(invoked[i])

\* a POST that passes every test before the provider chain
WellFormed(req) ==
    /\ req.method = "POST"
    /\ req.body.json = "object"
    /\ req.body.contentsKind = "array"
    /\ \A k \in 1..Len(req.body.contents) :
          req.body.contents[k] \in {"number", "user", "model"}

HasStatus(e) == "status" \in DOMAIN e

IsConfigError(e, p) ==
    /\ e.provider = p
    /\ ~HasStatus(e)
    /\ e.error = (CASE p = "claude" -> "CLAUDE_API_KEY not set"
                    [] p = "openai" -> "OPENAI_API_KEY not set"
                    [] p = "gemini" -> "GEMINI_API_KEY not set")

\* the diagnostic entry the handler holds for provider p, if any
EntriesOf(i, p) == {k \in 1..Len(errors[i]) : errors[i][k].provider = p}

\* the k-th outbound fetch of invocation i has settled
Settled(i) == 1..Len(answers[i])

\* ------------------------------------------------------------------------
\* C1: providers are attempted in the fixed order claude, openai, gemini
\* (every configured provider earlier in the order has been tried and has
\* failed before a later one is tried), and the first adapter result that is
\* a success ends the request with status 200 carrying that result: in a
\* state answered with 200 the provider that succeeded is the last one
\* invoked and no provider after it in the order has been called.
\* ------------------------------------------------------------------------
C1_FixedOrderFirstSuccessWins ==
    \A i \in Invocations :
        /\ Ascending(invoked[i])
        /\ Ascending(fetches[i])
        /\ \A p \in Range(invoked[i]) : \A q \in Providers :
              (env[q] = "set" /\ Rank(q) < Rank(p))
                 => /\ q \in Range(invoked[i])
                    /\ \E k \in EntriesOf(i, q) : HasStatus(errors[i][k])
        /\ response[i].status = 200 =>
              /\ pc[i] = "done"
              /\ res[i].ok
              /\ response[i].body = res[i].data
              /\ invoked[i] # <<>>
              /\ fetches[i] # <<>>
              /\ LastOf(fetches[i]) = LastOf(invoked[i])
              /\ Len(answers[i]) = Len(fetches[i])
              /\ LastOf(answers[i]).kind = "http"
              /\ RespOk(LastOf(answers[i]).status)
              /\ EntriesOf(i, LastOf(invoked[i])) = {}
              /\ \A q \in Providers :
                    Rank(q) > Rank(LastOf(invoked[i]))
                       => /\ q \notin Range(invoked[i])
                          /\ q \notin Range(fetches[i])
                          /\ EntriesOf(i, q) = {}

\* claude failed, openai answered, gemini is configured and was not called
C1_Witness ==
    \E i \in Invocations :
        /\ response[i].status = 200
        /\ invoked[i] = <<"claude", "openai">>
        /\ env["gemini"] = "set"

\* ------------------------------------------------------------------------
\* C2: a provider whose credential is absent or empty is never called (no
\* adapter invocation, no outbound fetch); once the chain has passed it, the
\* diagnostics hold exactly one entry for it, a configuration error without
\* status, and the chain has gone on to the next provider in order.
\* ------------------------------------------------------------------------
C2_UnconfiguredSkippedAndRecorded ==
    \A i \in Invocations : \A p \in Providers :
        Unconfigured(p) =>
            /\ p \notin Range(invoked[i])
            /\ p \notin Range(fetches[i])
            /\ pc[i] = "fetch" => ProviderOrder[cur[i]] # p
            /\ \A k \in EntriesOf(i, p) : IsConfigError(errors[i][k], p)
            /\ ( \/ response[i].status = 502
                 \/ \E q \in Range(invoked[i]) : Rank(q) > Rank(p) )
               => /\ Cardinality(EntriesOf(i, p)) = 1
                  /\ \A q \in LaterConfigured(p) :
                        response[i].status = 502 => q \in Range(invoked[i])

\* claude has the empty string as key, openai is absent, gemini answered
C2_Witness ==
    \E i \in Invocations :
        /\ env["claude"] = "empty"
        /\ env["openai"] = "absent"
        /\ response[i].status = 200
        /\ fetches[i] = <<"gemini">>
        /\ Len(errors[i]) = 2

\* ------------------------------------------------------------------------
\* C3: after a configured provider answers with a non-2xx status the handler
\* goes on to the next configured provider; when a well-formed request ends
\* without any provider succeeding, the response is the non-2xx aggregate
\* failure {error, details} and details holds exactly three entries, one per
\* provider, in the order claude, openai, gemini.
\* ------------------------------------------------------------------------
C3_FailoverAndAggregateFailure ==
    \A i \in Invocations :
        /\ \A k \in Settled(i) :
              (answers[i][k].kind = "http" /\ ~RespOk(answers[i][k].status))
                 => FollowedUp(i, fetches[i][k])
        /\ (pc[i] = "done" /\ WellFormed(request[i]) /\ ~res[i].ok)
              => response[i].status = 502
        /\ response[i].status = 502 =>
              /\ ~RespOk(response[i].status)
              /\ DOMAIN response[i].body = {"error", "details"}
              /\ response[i].body.error = "All providers failed"
              /\ response[i].body.details = errors[i]
              /\ Len(response[i].body.details) = 3
              /\ response[i].body.details[1].provider = "claude"
              /\ response[i].body.details[2].provider = "openai"
              /\ response[i].body.details[3].provider = "gemini"
              /\ \A p \in Providers :
                    env[p] = "set" => p \in Range(invoked[i])

\* claude answered 429, openai 503, gemini has no key: aggregate failure
C3_Witness ==
    \E i \in Invocations :
        /\ response[i].status = 502
        /\ Len(answers[i]) = 2
        /\ answers[i][1].status = 429 /\ answers[i][1].body = "error"
        /\ answers[i][2].status = 503 /\ answers[i][2].body = "error"
        /\ Unconfigured("gemini")

C5_MissingContentsIs400 ==
    \A i \in Invocations :
        ( /\ request[i].method = "POST"
          /\ request[i].body.json = "object"
          /\ request[i].body.contentsKind \in {"missing", "falsy", "string"} )
        => /\ invoked[i] = <<>>
           /\ fetches[i] = <<>>
           /\ errors[i] = <<>>
           /\ pc[i] \in {"json", "done"}
           /\ pc[i] = "done" =>
                 /\ response[i].status = 400
                 /\ response[i].body.error
                       = "Invalid request: contents array required"

\* contents is a string, every provider has a key, the answer is 400
C5_Witness ==
    \E i \in Invocations :
        /\ request[i].method = "POST"
        /\ request[i].body.json = "object"
        /\ request[i].body.contentsKind = "string"
        /\ \A p \in Providers : env[p] = "set"
        /\ response[i].status = 400

\* ------------------------------------------------------------------------
\* C6: every malformed POST (body that is no JSON, body that is JSON null
\* or another non-object, contents missing or no array, a contents array
\* holding a non-object element) is rejected with a 4xx status before any
\* provider is touched.
\* ------------------------------------------------------------------------
Malformed(req) ==
    /\ req.method = "POST"
    /\ \/ req.body.json # "object"
       \/ req.body.contentsKind # "array"
       \/ \E k \in 1..Len(req.body.contents) :
             req.body.contents[k] \in {"null", "number"}

C6_MalformedIsClientError ==
    \A i \in Invocations :
        Malformed(request[i]) =>
            /\ invoked[i] = <<>>
            /\ fetches[i] = <<>>
            /\ pc[i] = "done" =>
                  (response[i].status >= 400 /\ response[i].status <= 499)

\* ------------------------------------------------------------------------
\* C7: a vendor's answer with a success status and no extractable text is a
\* Failure of the adapter: it is never passed on as a 200, so every 200
\* response carries a non-empty reply text.
\* ------------------------------------------------------------------------
C7_EmptyReplyIsFailure ==
    \A i \in Invocations :
        /\ \A k \in Settled(i) :
              ( /\ answers[i][k].kind = "http"
                /\ RespOk(answers[i][k].status)
                /\ answers[i][k].body = "noreply" )
              => /\ EntriesOf(i, fetches[i][k]) # {}
                 /\ FollowedUp(i, fetches[i][k])
        /\ response[i].status = 200 =>
              /\ "candidates" \in DOMAIN response[i].body
              /\ response[i].body.candidates # <<>>
              /\ response[i].body.candidates[1] # ""

\* ------------------------------------------------------------------------
\* C8 (as stated): after a transport fault of a provider call (the fetch
\* rejects, or the body of the answer cannot be parsed) the diagnostic entry
\* of that provider carries the transport error and has no status.
\* ------------------------------------------------------------------------
TransportFault(vr) == vr.kind = "reject" \/ vr.body = "html"

C8_TransportFaultHasNoStatus ==
    \A i \in Invocations : \A k \in Settled(i) :
        TransportFault(answers[i][k]) =>
            \A n \in EntriesOf(i, fetches[i][k]) :
                ~HasStatus(errors[i][n])

\* ------------------------------------------------------------------------
\* C8 (amended): after a transport fault of a provider call the adapter
\* returns a Failure whose error is the fault's message and whose status is
\* the fixed code 500, whatever the vendor's own status was; the diagnostic
\* entry of that provider carries that message and status 500, and the
\* handler goes on to the next provider.
\* ------------------------------------------------------------------------
C8_TransportFaultIsStatus500 ==
    \A i \in Invocations : \A k \in Settled(i) :
        TransportFault(answers[i][k]) =>
            /\ Cardinality(EntriesOf(i, fetches[i][k])) = 1
            /\ \A n \in EntriesOf(i, fetches[i][k]) :
                  /\ HasStatus(errors[i][n])
                  /\ errors[i][n].status = 500
                  /\ errors[i][n].error
                        = (IF answers[i][k].kind = "reject"
                           THEN "fetch failed" ELSE "Unexpected token")
            /\ FollowedUp(i, fetches[i][k])

\* the fetch to claude was rejected and the entry of claude has status 500
C8_Witness ==
    \E i \in Invocations :
        /\ Len(answers[i]) >= 1
        /\ answers[i][1].kind = "reject"
        /\ fetches[i][1] = "claude"
        /\ errors[i] # <<>>
        /\ errors[i][1] = [provider |-> "claude", error |-> "fetch failed",
                           status |-> 500]

\* ------------------------------------------------------------------------
\* C9: whenever a vendor answers with a non-success status, whatever its
\* body, the diagnostic entry of that provider has exactly the vendor's
\* status and the vendor's payload as error.
\* ------------------------------------------------------------------------
C9_VendorStatusPreserved ==
    \A i \in Invocations : \A k \in Settled(i) :
        (answers[i][k].kind = "http" /\ ~RespOk(answers[i][k].status))
            => \E n \in EntriesOf(i, fetches[i][k]) :
                  /\ HasStatus(errors[i][n])
                  /\ errors[i][n].status = answers[i][k].status
                  /\ errors[i][n].error = answers[i][k].body

\* ------------------------------------------------------------------------
\* C10: no failure of a provider ends the handler.  Once a request is
\* well-formed, the handler answers with 200 or with the aggregate failure
\* 502, never with the generic 500; every adapter result is data (nothing is
\* thrown), each provider that failed (non-2xx status, rejected fetch,
\* unparseable body, generationConfig null) has its diagnostic entry and is
\* followed by an attempt on the next configured provider.
\* ------------------------------------------------------------------------
C10_ProviderFailuresAreData ==
    \A i \in Invocations :
        WellFormed(request[i]) =>
            /\ ~IsThrown(res[i])
            /\ pc[i] = "done" => response[i].status \in {200, 502}
            /\ response[i].status # 500
            /\ \A k \in 1..Len(invoked[i]) :
                  LET p == invoked[i][k] IN
                  \/ pc[i] = "fetch" /\ k = Len(invoked[i])
                  \/ response[i].status = 200 /\ k = Len(invoked[i])
                  \/ /\ Cardinality(EntriesOf(i, p)) = 1
                     /\ FollowedUp(i, p)

\* generationConfig is null: claude and openai fail before their fetch,
\* gemini is tried and answers
C10_Witness ==
    \E i \in Invocations :
        /\ request[i].body.gen = "null"
        /\ invoked[i] = <<"claude", "openai", "gemini">>
        /\ fetches[i] = <<"gemini">>
        /\ errors[i][1].error = "Cannot read properties of null"
        /\ response[i].status = 200

\* ------------------------------------------------------------------------
\* C11: within one invocation the provider calls are strictly sequential: at
\* most one outbound call is outstanding at any moment (one exactly while
\* the handler awaits a provider), and every provider called before the
\* latest one has completed and has completed with a failure, which the
\* diagnostics record.
\* ------------------------------------------------------------------------
Outstanding(i) == Len(fetches[i]) - Len(answers[i])

C11_ProviderCallsSequential ==
    \A i \in Invocations :
        /\ Outstanding(i) \in {0, 1}
        /\ Outstanding(i) = 1 <=> pc[i] = "fetch"
        /\ pc[i] = "fetch" => LastOf(fetches[i]) = ProviderOrder[cur[i]]
        /\ \A k \in 1..Len(fetches[i]) :
              k < Len(fetches[i]) =>
                 /\ k <= Len(answers[i])
                 /\ \E n \in EntriesOf(i, fetches[i][k]) :
                       HasStatus(errors[i][n])
        /\ \A k \in 1..Len(invoked[i]) :
              k < Len(invoked[i]) =>
                 \E n \in EntriesOf(i, invoked[i][k]) :
                    HasStatus(errors[i][n])

\* claude has answered with a failure and the call to openai is outstanding
C11_Witness ==
    \E i \in Invocations :
        /\ pc[i] = "fetch"
        /\ fetches[i] = <<"claude", "openai">>
        /\ Len(answers[i]) = 1
        /\ Len(errors[i]) = 1

\* ------------------------------------------------------------------------
\* C12: every adapter invocation issues exactly one outbound request and
\* none is repeated: the log of outbound requests is the log of adapter
\* invocations, no provider occurs twice in it, and it has at most three
\* entries.
\* ------------------------------------------------------------------------
C12_OneRequestPerAdapterCall ==
    \A i \in Invocations :
        /\ fetches[i] = invoked[i]
        /\ Cardinality(Range(invoked[i])) = Len(invoked[i])
        /\ Len(fetches[i]) <= 3

\* ------------------------------------------------------------------------
\* C13: every 200 response has the one normalized shape
\* {candidates: [{content: {parts: [{text}]}}]}, whichever provider
\* answered: candidates is there and has a first element to read.
\* ------------------------------------------------------------------------
C13_NormalizedShapeOn200 ==
    \A i \in Invocations :
        response[i].status = 200 =>
            /\ DOMAIN response[i].body = {"candidates"}
            /\ Len(response[i].body.candidates) >= 1

\* ------------------------------------------------------------------------
\* C14: an OPTIONS request is answered with the cross-origin headers alone
\* and no body; a request with any method other than POST or OPTIONS is
\* answered with the method-not-allowed error; in both cases the handler
\* returns without reading the request body and without invoking a
\* provider.
\* ------------------------------------------------------------------------
C14_PreflightAndOtherMethods ==
    \A i \in Invocations :
        /\ request[i].method = "OPTIONS" =>
              /\ response[i].headers
                    = {"Access-Control-Allow-Origin",
                       "Access-Control-Allow-Methods",
                       "Access-Control-Allow-Headers"}
              /\ response[i].body = [none |-> TRUE]
              /\ response[i].status = 204
        /\ request[i].method \in {"GET", "PUT"} =>
              /\ response[i].status = 405
              /\ response[i].body.error = "Method not allowed. Use POST."
        /\ request[i].method \in {"OPTIONS", "GET", "PUT"} =>
              /\ pc[i] = "done"
              /\ invoked[i] = <<>>
              /\ fetches[i] = <<>>
              /\ messages[i] = <<>>
              /\ errors[i] = <<>>

\* an OPTIONS request has been answered while every provider has a key
C14_Witness ==
    \E i \in Invocations :
        /\ request[i].method = "OPTIONS"
        /\ response[i].status = 204
        /\ \A p \in Providers : env[p] = "set"

\* ------------------------------------------------------------------------
\* Vocabulary of the chat session's properties
\* ------------------------------------------------------------------------

\* the latest call ran a turn to its end
TurnEnded == lastTurn.kind \in {"accepted", "failed"}

\* what the latest turn added to the history it found
AddedByTurn ==
    SubSeq(conversationHistory, Len(lastTurn.before) + 1,
           Len(conversationHistory))

UserEntry(message) == [role |-> "user", text |-> message]

AssistantEntry(reply) == [role |-> "assistant", text |-> reply]

\* ------------------------------------------------------------------------
\* C15: at most one turn is in flight per session.  While isLoading is
\* true no step starts a turn or issues an outbound request, a call made
\* then leaves conversationHistory as it is, and so no two turns overlap
\* under any interleaving of submissions and completions.
\* ------------------------------------------------------------------------
C15_SingleTurnInFlight ==
    /\ [](Cardinality(inFlight) <= 1 /\ (inFlight # {} => isLoading))
    /\ [][isLoading =>
            /\ turns' = turns
            /\ inFlight' \subseteq inFlight
            /\ lastContents' = lastContents
            /\ lastTurn'.kind = "ignored" =>
                  conversationHistory' = conversationHistory]_vars

\* a question was submitted while a turn was in flight, and was ignored
C15_Witness ==
    /\ isLoading
    /\ inFlight # {}
    /\ lastTurn.kind = "ignored"
    /\ ~Falsy(lastTurn.message)

\* ------------------------------------------------------------------------
\* C16: isLoading is cleared on every exit path of a turn.  Provided the
\* gateway call resolves or rejects in the end, a turn that set isLoading
\* sets it back to false, and a turn that has ended, accepted or failed
\* (retrieval, gateway call or reply extraction), has left it false.
\* ------------------------------------------------------------------------
C16_LoadingFlagCleared ==
    /\ [](TurnEnded => ~isLoading)
    /\ (isLoading ~> ~isLoading)

\* a turn whose reply held no text has ended with the flag cleared
C16_Witness ==
    /\ lastTurn.kind = "failed"
    /\ lastTurn.error = "No response from Gemini"
    /\ ~isLoading

\* ------------------------------------------------------------------------
\* C17: a turn whose gateway call succeeds with a non-empty reply makes
\* conversationHistory exactly two entries longer: the user's message, then
\* an assistant message holding the reply text.
\* ------------------------------------------------------------------------
C17_AcceptedTurnAddsTwo ==
    lastTurn.kind = "accepted" =>
        /\ Len(conversationHistory) = Len(lastTurn.before) + 2
        /\ conversationHistory
              = lastTurn.before \o <<UserEntry(lastTurn.message),
                                     AssistantEntry(lastTurn.reply)>>

\* a turn was accepted on top of an earlier exchange
C17_Witness ==
    /\ lastTurn.kind = "accepted"
    /\ Len(lastTurn.before) >= 2
    /\ ~isLoading

\* ------------------------------------------------------------------------
\* C18: a turn that fails (the gateway answers non-2xx, the fetch rejects,
\* or the reply has no text) appends no assistant message: the error shown
\* to the user is not stored as an assistant turn.
\* ------------------------------------------------------------------------
C18_FailedTurnStoresNoAssistant ==
    lastTurn.kind = "failed" =>
        /\ Len(conversationHistory) >= Len(lastTurn.before)
        /\ \A k \in 1..Len(AddedByTurn) : AddedByTurn[k].role # "assistant"

\* the gateway answered non-2xx to a turn that followed an accepted one
C18_Witness ==
    /\ lastTurn.kind = "failed"
    /\ lastTurn.error = "API error"
    /\ Len(lastTurn.before) >= 2

\* ------------------------------------------------------------------------
\* C19: on total failure of a turn the conversation history is left
\* unmodified: conversationHistory after the failed call equals
\* conversationHistory before it.
\* ------------------------------------------------------------------------
C19_FailedTurnLeavesHistory ==
    lastTurn.kind = "failed" => conversationHistory = lastTurn.before

\* ------------------------------------------------------------------------
\* C20: the session history is bounded: in every reachable state
\* conversationHistory holds at most 10 messages.
\* ------------------------------------------------------------------------
C20_HistoryAtMostTen == Len(conversationHistory) <= MAX_HISTORY

\* C20 as the code has it: conversationHistory only grows; what is bounded
\* is each outbound request, which carries at most the 10 latest messages
\* of the history and the one new user message.
C20_OutboundWindowBounded ==
    /\ Len(lastContents) <= MAX_HISTORY + 1
    /\ \A t \in inFlight :
          /\ Len(t.contents) <= MAX_HISTORY + 1
          /\ Len(conversationHistory) > Len(t.before)
    /\ TurnEnded => Len(conversationHistory) > Len(lastTurn.before)

\* the history has outgrown 10 messages and the request sent for the turn
\* in flight carries 11
C20_Witness ==
    /\ Len(conversationHistory) > MAX_HISTORY
    /\ inFlight # {}
    /\ Len(lastContents) = MAX_HISTORY + 1

\* ------------------------------------------------------------------------
\* C21: the message list callGemini sends holds, in order, the 10 most
\* recent entries of conversationHistory (all of them when there are fewer)
\* and then exactly one new user message that embeds the retrieved context
\* and the question; no entry older than the 10 most recent is in it, so
\* not in the 12th request after 11 exchanges either.
\* ------------------------------------------------------------------------
C21_OutboundWindow ==
    \A t \in inFlight :
        LET n == Len(conversationHistory)
            k == IF n < MAX_HISTORY THEN n ELSE MAX_HISTORY
        IN
        /\ Len(t.contents) = k + 1
        /\ \A j \in 1..k :
              /\ t.contents[j].text = conversationHistory[n - k + j].text
              /\ t.contents[j].role =
                    IF conversationHistory[n - k + j].role = "user"
                    THEN "user" ELSE "model"
        /\ t.contents[k + 1]
              = [role |-> "user",
                 text |-> [context |-> searchKnowledge(t.message),
                           question |-> t.message]]
        /\ \A old \in 1..(n - k) : \A j \in 1..k :
              t.contents[j].text # conversationHistory[old].text

\* the 12th request of a session is out, after 11 answered exchanges
C21_Witness ==
    /\ turns = 12
    /\ inFlight # {}
    /\ Len(conversationHistory) = 23
    /\ Unanswered(conversationHistory) = 1

\* ------------------------------------------------------------------------
\* Vocabulary of the retrieval properties
\* ------------------------------------------------------------------------

\* the raw text holds the raw part, whatever the case of the letters
HoldsIgnoringCase(text, part) ==
    \E k \in 0..(Len(text) - Len(part)) :
        \A j \in 1..Len(part) : LowerChar(text[k + j]) = LowerChar(part[j])

\* the chunks the examined search ran over, and how many there are
SearchedChunks == lastSearch.kb.chunks

SearchedCount == Len(lastSearch.kb.chunks)

\* chunk i has the token among its tokens
ChunkHasToken(i, token) ==
    \E j \in 1..Len(tokenize(SearchedChunks[i].text)) :
        tokenize(SearchedChunks[i].text)[j] = token

\* a token of the examined query
QueryTokens == Range(tokenize(lastSearch.query))

\* the chunks whose score is positive
PositiveChunks == {i \in 1..SearchedCount : Positive(lastSearch.scores[i])}

\* ------------------------------------------------------------------------
\* C22: searchKnowledge returns an empty result whenever tokenizing the
\* query yields no terms, for every knowledge base, also when a chunk's
\* text contains the raw query.
\* ------------------------------------------------------------------------
C22_NoTermsNoResult ==
    (lastSearch.done /\ tokenize(lastSearch.query) = <<>>) =>
        lastSearch.ranked = <<>>

\* a query of one short word was searched in a knowledge base that has a
\* chunk containing it
C22_Witness ==
    /\ lastSearch.done
    /\ lastSearch.query = QueryIn
    /\ \E i \in 1..SearchedCount :
          includes(SearchedChunks[i].text, lastSearch.query)
    /\ lastSearch.ranked = <<>>

\* ------------------------------------------------------------------------
\* C23: searchKnowledge returns at most MAX_CONTEXT_CHUNKS (8) entries,
\* also when more chunks score above 0; every entry's score is above 0,
\* the entries are in non-increasing order of score, and no chunk left out
\* scores higher than a returned one.
\* ------------------------------------------------------------------------
C23_TopChunksOnly ==
    lastSearch.done =>
        LET ranked == lastSearch.ranked
            m == Len(ranked)
        IN
        /\ m <= 8
        /\ m = IF Cardinality(PositiveChunks) < 8
               THEN Cardinality(PositiveChunks) ELSE 8
        /\ \A j \in 1..m : ranked[j].score.num > 0
        /\ \A j \in 1..(m - 1) :
              ~Higher(ranked[j + 1].score, ranked[j].score)
        \* every chunk that scores higher than a returned entry is returned
        /\ \A j \in 1..m :
              Cardinality({i \in 1..SearchedCount :
                              Higher(lastSearch.scores[i], ranked[j].score)})
                = Cardinality({e \in 1..m :
                                  Higher(ranked[e].score, ranked[j].score)})

\* more than 8 chunks score above 0, with different scores
C23_Witness ==
    /\ lastSearch.done
    /\ Cardinality(PositiveChunks) > 8
    /\ Len(lastSearch.ranked) = 8
    /\ Higher(lastSearch.ranked[1].score, lastSearch.ranked[8].score)

C25_PhraseBoostDoubles ==
    lastSearch.done =>
        LET plain == tfidfSum(lastSearch.query, SearchedChunks) IN
        \A i \in 1..SearchedCount :
            LET score == lastSearch.scores[i] IN
            IF HoldsIgnoringCase(SearchedChunks[i].text, lastSearch.query)
            THEN score.num * plain[i].den = 2 * plain[i].num * score.den
            ELSE score.num * plain[i].den = plain[i].num * score.den

\* "phd" was searched: a chunk "PhD" scored above 0 with the boost, and a
\* chunk that matches a term without containing the query scored above 0
C25_Witness ==
    /\ lastSearch.done
    /\ \E i \in 1..SearchedCount :
          /\ SearchedChunks[i].text = TextPhD
          /\ lastSearch.query = QueryPhd
          /\ lastSearch.scores[i].num > 0
    /\ \E i \in 1..SearchedCount :
          ~HoldsIgnoringCase(SearchedChunks[i].text, lastSearch.query)

\* ------------------------------------------------------------------------
\* Vocabulary of the tokenizer's properties
\* ------------------------------------------------------------------------

\* the text as tokenize sees it: lowercase, punctuation turned to spaces
Cleaned(text) ==
    [k \in 1..Len(text) |->
        IF IsWord(text[k]) THEN LowerChar(text[k]) ELSE " "]

\* the word that covers positions from..to of the cleaned text, whole
WordAt(cleaned, from, to) ==
    /\ 1 <= from /\ from <= to /\ to <= Len(cleaned)
    /\ \A k \in from..to : cleaned[k] # " "
    /\ from = 1 \/ cleaned[from - 1] = " "
    /\ to = Len(cleaned) \/ cleaned[to + 1] = " "

\* the tokens from the k-th on are whole words of the cleaned text, one
\* after the other, from position `from` on
RECURSIVE InOrder(_, _, _, _)
InOrder(tokens, k, cleaned, from) ==
    IF k > Len(tokens) THEN TRUE
    ELSE \E start \in from..Len(cleaned) :
            /\ WordAt(cleaned, start, start + Len(tokens[k]) - 1)
            /\ SubSeq(cleaned, start, start + Len(tokens[k]) - 1) = tokens[k]
            /\ InOrder(tokens, k + 1, cleaned, start + Len(tokens[k]))

\* ------------------------------------------------------------------------
\* C26: tokenize lowercases, turns every character that is neither a word
\* character nor whitespace into a space, splits on whitespace and drops
\* terms of length 2 or less: every term is lowercase, at least 3 long and
\* made of word characters, the terms keep their order in the text, empty
\* or all-punctuation input gives the empty sequence, "Hello, World!!"
\* gives [hello, world] and "a an is" gives [].
\* ------------------------------------------------------------------------
C26_TokenizeTerms ==
    lastTokens.done =>
        LET text == lastTokens.text
            tokens == lastTokens.tokens
            cleaned == Listed(Cleaned(text))
        IN
        /\ \A k \in 1..Len(tokens) :
              /\ Len(tokens[k]) >= 3
              /\ \A j \in 1..Len(tokens[k]) :
                    /\ IsWord(tokens[k][j])
                    /\ \A u \in 1..Len(UpperCase) : tokens[k][j] # UpperCase[u]
        /\ InOrder(tokens, 1, cleaned, 1)
        \* and every word of 3 or more characters is a term
        /\ Len(tokens)
              = Cardinality({w \in (1..Len(text)) \X (1..Len(text)) :
                                /\ WordAt(cleaned, w[1], w[2])
                                /\ w[2] - w[1] >= 2})
        /\ (\A k \in 1..Len(text) : ~IsWord(text[k])) => tokens = <<>>
        /\ text = TextHelloWorld =>
              tokens = << <<"h", "e", "l", "l", "o">>,
                          <<"w", "o", "r", "l", "d">> >>
        /\ text = TextAAnIs => tokens = <<>>

\* "Hello, World!!" was tokenized
C26_Witness ==
    /\ lastTokens.done
    /\ lastTokens.text = TextHelloWorld
    /\ Len(lastTokens.tokens) = 2

C28_ReadThroughCache ==
    /\ [](\A r \in ScholarInvocations :
            /\ scholar[r].upstreamCalls <= 1
            /\ scholar[r].matched = "hit" =>
                  /\ scholar[r].upstreamCalls = 0
                  /\ scholar[r].status = 200
                  /\ ~scholar[r].putPending /\ ~scholar[r].stored
            /\ scholar[r].upstreamCalls > 0 =>
                  /\ scholar[r].method = "GET"
                  /\ scholar[r].matched = "miss"
            /\ scholar[r].method # "GET" => scholar[r].matched = "none")
    /\ [][\A r \in ScholarInvocations :
            /\ (scholar[r].pc = "match" /\ scholar'[r].pc # "match") =>
                  IF cache[scholar[r].url] # NoEntry
                  THEN /\ scholar'[r].pc = "done"
                       /\ scholar'[r].body = cache[scholar[r].url]
                       /\ scholar'[r].upstreamCalls = 0
                  ELSE scholar'[r].upstreamCalls = 1
            /\ (scholar'[r].stored /\ ~scholar[r].stored) =>
                  cache'[scholar[r].url] = scholar[r].body]_vars
    /\ \A r \in ScholarInvocations :
          (scholar[r].matched = "miss" /\ scholar[r].status = 200)
              ~> scholar[r].stored

\* one request missed, called the upstream and stored its response; the
\* other then got that response from the cache
C28_Witness ==
    \E r, q \in ScholarInvocations :
        /\ scholar[r].matched = "miss"
        /\ scholar[r].stored
        /\ scholar[q].matched = "hit"
        /\ scholar[q].pc = "done"
        /\ scholar[q].body = scholar[r].body
        /\ scholar[q].url = scholar[r].url

\* ------------------------------------------------------------------------
\* Vocabulary of the concurrency property: handleRequest run alone
\* ------------------------------------------------------------------------

IdleLocals ==
    [pc |-> "idle", cur |-> 0, errors |-> <<>>, res |-> NoRes,
     invoked |-> <<>>, fetches |-> <<>>, response |-> NoResponse]

\* alone, after the method tests
AloneReceived(req) ==
    [IdleLocals EXCEPT !.pc = MethodResult(req.method).pc,
                       !.response = MethodResult(req.method).response]

\* alone, after the body was read
AloneBodyRead(req) ==
    LET st == AloneReceived(req) IN
    IF st.pc # "json" THEN st
    ELSE IF req.body.json \in {"invalid", "null"}
    THEN [st EXCEPT !.pc = "done", !.response = WorkerError]
    ELSE IF ContentsInvalid(req.body)
    THEN [st EXCEPT !.pc = "done", !.response = InvalidRequest]
    ELSE IF normalizeThrows(req.body.contents)
    THEN [st EXCEPT !.pc = "done", !.response = WorkerError]
    ELSE Dispatch(1, req.body.gen, st)

\* alone, after the first k of its vendors' answers
RECURSIVE AloneAnswered(_, _, _)
AloneAnswered(req, own, k) ==
    IF k = 0 THEN AloneBodyRead(req)
    ELSE LET st == AloneAnswered(req, own, k - 1)
             p == ProviderOrder[st.cur]
             r == CallProvider(p, req.body.gen, own[k])
         IN IF IsThrown(r)
            THEN [st EXCEPT !.pc = "done", !.cur = 0, !.response = WorkerError]
            ELSE IF r.ok
            THEN [st EXCEPT !.pc = "done", !.cur = 0, !.res = r,
                            !.response = respondJSON(r.data)]
            ELSE Dispatch(st.cur + 1, req.body.gen,
                          [st EXCEPT !.errors = Append(@, FailureEntry(p, r)),
                                     !.res = r])

\* ------------------------------------------------------------------------
\* C29: concurrent gateway requests do not interfere.  Under every
\* interleaving of two invocations of handleRequest, the response and the
\* diagnostic list of each are what the handler alone yields for its
\* request, the configured credentials and the outcomes of its own
\* provider calls, and no diagnostic entry of one comes from the other.
\* ------------------------------------------------------------------------
C29_InvocationsDoNotInterfere ==
    \A i \in Invocations :
        /\ Locals(i) =
              IF pc[i] = "idle" THEN IdleLocals
              ELSE IF pc[i] = "json" THEN AloneReceived(request[i])
              ELSE AloneAnswered(request[i], answers[i], Len(answers[i]))
        /\ \A k \in 1..Len(errors[i]) :
              \/ /\ ~HasStatus(errors[i][k])
                 /\ ~Configured(errors[i][k].provider)
              \/ /\ BuildFaults(errors[i][k].provider, request[i].body.gen)
                 /\ errors[i][k] =
                       FailureEntry(errors[i][k].provider,
                           CallProvider(errors[i][k].provider,
                                        request[i].body.gen, NoVendorResponse))
              \/ \E a \in 1..Len(answers[i]) :
                    /\ fetches[i][a] = errors[i][k].provider
                    /\ errors[i][k] =
                          FailureEntry(fetches[i][a],
                              CallProvider(fetches[i][a], request[i].body.gen,
                                           answers[i][a]))

\* both invocations await a provider, each with its own diagnostics
C29_Witness ==
    /\ pc[1] = "fetch"
    /\ pc[2] = "fetch"
    /\ errors[1] # <<>>
    /\ errors[2] # <<>>
    /\ errors[1] # errors[2]

\* ------------------------------------------------------------------------
\* C30: every response of handleRequest has a status in {200, 204, 400,
\* 405, 500, 502}.  A vendor's own status code (429, say) is never the
\* status of the gateway's response, it appears only inside a diagnostic
\* entry, so the branch of the client's callGemini for status 429 is never
\* taken on an answer of this gateway.
\* ------------------------------------------------------------------------
C30_GatewayStatuses ==
    \A i \in Invocations :
        pc[i] = "done" =>
            /\ response[i].status \in {200, 204, 400, 405, 500, 502}
            /\ \A a \in 1..Len(answers[i]) :
                  (answers[i][a].kind = "http" /\ answers[i][a].status # 200)
                      => response[i].status # answers[i][a].status
            /\ \A body \in ProxyBodies :
                  LET r == GatewayReply([id |-> 1],
                                        [kind |-> "http",
                                         status |-> response[i].status,
                                         body |-> body])
                  IN ~r.ok => r.error # "Rate limit reached"

\* every provider answered 429 and the request was answered with 502, the
\* vendors' status in the diagnostics
C30_Witness ==
    \E i \in Invocations :
        /\ pc[i] = "done"
        /\ response[i].status = 502
        /\ Len(answers[i]) = 3
        /\ \A a \in 1..3 : answers[i][a].status = 429
        /\ \E k \in 1..Len(errors[i]) :
              HasStatus(errors[i][k]) /\ errors[i][k].status = 429

\* ------------------------------------------------------------------------
\* C31: in an aggregate-failure response (502) an entry of details carries
\* a status field if and only if its provider has a credential configured
\* and its adapter was called; such an entry holds provider, error and the
\* status the adapter reported.  The entry of a provider without credential
\* holds provider and error only, the error naming the missing key, and
\* that provider was not called.
\* ------------------------------------------------------------------------
C31_StatusIffCalled ==
    \A i \in Invocations :
        response[i].status = 502 =>
            \A k \in 1..Len(response[i].body.details) :
                LET e == response[i].body.details[k]
                    p == e.provider
                IN /\ HasStatus(e) <=> (Configured(p) /\ p \in Range(invoked[i]))
                   /\ HasStatus(e) =>
                         /\ DOMAIN e = {"provider", "error", "status"}
                         /\ e.status \in VendorStatuses \cup {500}
                   /\ ~HasStatus(e) =>
                         /\ DOMAIN e = {"provider", "error"}
                         /\ e.error = KeyNotSet(p)
                         /\ Unconfigured(p)
                         /\ p \notin Range(invoked[i])

\* claude has no key, openai answered 503, gemini has the empty string as
\* key: the aggregate failure holds one entry with status between two
\* without
C31_Witness ==
    \E i \in Invocations :
        /\ response[i].status = 502
        /\ env["claude"] = "absent" /\ env["gemini"] = "empty"
        /\ invoked[i] = <<"openai">>
        /\ ~HasStatus(response[i].body.details[1])
        /\ HasStatus(response[i].body.details[2])
        /\ response[i].body.details[2].status = 503
        /\ ~HasStatus(response[i].body.details[3])

\* ------------------------------------------------------------------------
\* Vocabulary of C32: list `a` is a prefix of list `b`
\* ------------------------------------------------------------------------
IsPrefix(a, b) == Len(a) <= Len(b) /\ SubSeq(b, 1, Len(a)) = a

\* ------------------------------------------------------------------------
\* C32: conversationHistory is append-only and well ordered.  Every step
\* leaves the earlier history as a prefix of the later one (so an earlier
\* history is a prefix of every later one); every assistant message comes
\* right after the user message of its own turn; no two assistant messages
\* are adjacent.
\* ------------------------------------------------------------------------
C32_HistoryAppendOnly ==
    /\ [][IsPrefix(conversationHistory, conversationHistory')]_vars
    /\ [](\A k \in 1..Len(conversationHistory) :
            conversationHistory[k].role = "assistant" =>
                /\ k > 1
                /\ conversationHistory[k - 1].role = "user"
                /\ \E n \in 1..MaxTurns :
                      /\ conversationHistory[k].text = AnswerOf(n)
                      /\ conversationHistory[k - 1].text = QuestionOf(n)
                /\ k < Len(conversationHistory)
                      => conversationHistory[k + 1].role = "user")

\* two answered turns with a failed one between them: the history holds
\* user, assistant, user, user, assistant
C32_Witness ==
    /\ Len(conversationHistory) = 5
    /\ conversationHistory[2].role = "assistant"
    /\ conversationHistory[3].role = "user"
    /\ conversationHistory[4].role = "user"
    /\ conversationHistory[5].role = "assistant"
    /\ ~isLoading

\* ------------------------------------------------------------------------
\* C33: the user's message is in conversationHistory before callGemini
\* builds `contents`, so every outbound contents list ends with two
\* user-role entries in a row: the raw question, which is the last entry of
\* the history at that moment, and then the question with its context.
\* The list holds at least 2 and at most 11 entries.
\* ------------------------------------------------------------------------
C33_TwoTrailingUserEntries ==
    /\ \A t \in inFlight :
          LET n == Len(t.contents) IN
          /\ n >= 2 /\ n <= MAX_HISTORY + 1
          /\ t.contents = lastContents
          /\ t.contents[n].role = "user"
          /\ t.contents[n].text.question = t.message
          /\ t.contents[n - 1] = [role |-> "user", text |-> t.message]
          /\ conversationHistory = PushUser(t.before, t.message)
          /\ n = (IF Len(conversationHistory) <= MAX_HISTORY
                  THEN Len(conversationHistory) ELSE MAX_HISTORY) + 1
    /\ lastContents # <<>> =>
          LET n == Len(lastContents) IN
          /\ n >= 2 /\ n <= MAX_HISTORY + 1
          /\ lastContents[n].role = "user"
          /\ lastContents[n - 1].role = "user"
          /\ lastContents[n].text.question = lastContents[n - 1].text

\* a request in flight that carries 11 entries, the last two from the user
C33_Witness ==
    /\ inFlight # {}
    /\ Len(lastContents) = MAX_HISTORY + 1
    /\ Len(conversationHistory) > MAX_HISTORY
    /\ lastContents[MAX_HISTORY].role = "user"
    /\ lastContents[MAX_HISTORY + 1].role = "user"
    /\ lastContents[MAX_HISTORY - 1].role = "model"

\* ------------------------------------------------------------------------
\* Vocabulary of C34: the tokens of every searched chunk, and the query's
\* tokens that occur in every one of them
\* ------------------------------------------------------------------------
SearchedTokens ==
    Listed([i \in 1..SearchedCount |-> Range(tokenize(SearchedChunks[i].text))])

InEveryChunk(token) == \A i \in 1..SearchedCount : ChunkHasToken(i, token)

\* ------------------------------------------------------------------------
\* C34: a query term that occurs in every chunk contributes zero to every
\* score (a chunk whose query terms all occur in every chunk scores zero),
\* and the phrase boost leaves a zero score zero.  A chunk has a score
\* above 0, and so can be returned, only if it contains a query term that
\* some other chunk does not contain; a knowledge base of one chunk yields
\* the empty result for every query.
\* ------------------------------------------------------------------------
C34_SharedTermsScoreZero ==
    lastSearch.done =>
        LET tokens == SearchedTokens
            terms == QueryTokens
            shared == {t \in terms :
                          \A i \in 1..SearchedCount : t \in tokens[i]}
        IN
        /\ terms \subseteq shared =>
              /\ \A i \in 1..SearchedCount : lastSearch.scores[i].num = 0
              /\ lastSearch.ranked = <<>>
        /\ \A i \in 1..SearchedCount :
              (terms \cap tokens[i]) \subseteq shared
                  => lastSearch.scores[i].num = 0
        /\ \A i \in PositiveChunks :
              \E t \in terms \cap tokens[i] :
                  \E o \in (1..SearchedCount) \ {i} : t \notin tokens[o]
        /\ \A j \in 1..Len(lastSearch.ranked) :
              \E i \in PositiveChunks :
                  /\ lastSearch.ranked[j].text = SearchedChunks[i].text
                  /\ lastSearch.ranked[j].score = lastSearch.scores[i]
        /\ SearchedCount = 1 => lastSearch.ranked = <<>>

\* "phd" was searched in several chunks that all hold the term, one of them
\* holding the query as a phrase: nothing was returned
C34_Witness ==
    /\ lastSearch.done
    /\ lastSearch.query = QueryPhd
    /\ SearchedCount >= 2
    /\ \A t \in QueryTokens : InEveryChunk(t)
    /\ \E i \in 1..SearchedCount :
          HoldsIgnoringCase(SearchedChunks[i].text, lastSearch.query)
    /\ \E i \in 1..SearchedCount : SearchedChunks[i].text = TextPhdInMath
    /\ lastSearch.ranked = <<>>

\* ------------------------------------------------------------------------
\* Vocabulary of C35: request r called the upstream and was answered 500
\* ------------------------------------------------------------------------
UpstreamFailed(r) ==
    /\ scholar[r].pc = "done"
    /\ scholar[r].upstreamCalls = 1
    /\ scholar[r].status = 500

\* ------------------------------------------------------------------------
\* C35: the scholar-stats worker never caches a failure.  A request whose
\* upstream call fails or answers with a non-2xx status is answered 500 and
\* writes nothing to the cache, then or later; the cache holds nothing but
\* the stats of a 200 response; after such a failure a request for the
\* same URL misses the cache and calls the upstream again.  In the SerpApi
\* variant a GET without SERPAPI_KEY is answered 500 with no cache lookup
\* and no upstream call.
\* ------------------------------------------------------------------------
C35_FailuresNotCached ==
    /\ [](/\ \A u \in ScholarUrls :
                cache[u] # NoEntry => cache[u].kind = "stats"
          /\ \A r \in ScholarInvocations :
                /\ scholar[r].status = 500 =>
                      /\ ~scholar[r].putPending /\ ~scholar[r].stored
                      /\ scholar[r].body.kind = "error"
                /\ (scholar[r].putPending \/ scholar[r].stored) =>
                      /\ scholar[r].status = 200
                      /\ scholar[r].body.kind = "stats"
                /\ (KeyMissing /\ scholar[r].method = "GET") =>
                      /\ scholar[r].pc = "done"
                      /\ scholar[r].status = 500
                      /\ scholar[r].matched = "none"
                      /\ scholar[r].upstreamCalls = 0)
    /\ [][\A r \in ScholarInvocations :
            \* the step that ends a request with 500 leaves the cache alone
            /\ (scholar[r].status # 500 /\ scholar'[r].status = 500)
                  => cache' = cache
            \* the upstream answered with a failure: the request ends 500
            /\ \A outcome \in {"status503", "rejected"} :
                  UpstreamAnswers(r, outcome) => scholar'[r].status = 500
            \* a request for the URL of a failed one goes to the upstream
            /\ \A q \in ScholarInvocations \ {r} :
                  ( /\ UpstreamFailed(q)
                    /\ scholar[r].url = scholar[q].url
                    /\ scholar[r].pc = "match"
                    /\ scholar'[r].pc # "match" )
                  => /\ scholar'[r].pc = "upstream"
                     /\ scholar'[r].upstreamCalls = 1]_vars

\* one request was refused by the upstream with 503 and answered 500; the
\* other asked for the same URL, called the upstream again and stored its
\* 200 response
C35_Witness ==
    \E q, r \in ScholarInvocations :
        /\ UpstreamFailed(q)
        /\ ~scholar[q].stored
        /\ scholar[r].url = scholar[q].url
        /\ scholar[r].matched = "miss"
        /\ scholar[r].upstreamCalls = 1
        /\ scholar[r].status = 200
        /\ scholar[r].stored
        /\ cache[scholar[r].url] = scholar[r].body

====
